---- MODULE Spec2Model ----
(***************************************************************************)
(* A model of cryptopen::pkey::rsa_key (include/cryptoplus/pkey/           *)
(* rsa_key.hpp): a handle holding a boost::shared_ptr<RSA> whose deleter   *)
(* is RSA_free.  The heap of RSA records, the shared_ptr control blocks,   *)
(* the handles, one PEM stream and the outcome of the last call are the    *)
(* state; every member function is one action.                             *)
(***************************************************************************)
EXTENDS Integers, Sequences, FiniteSets, TLC

\* ------------------------------------------------------------------ bounds
MaxHandles == 2      \* rsa_key objects that exist at the same time
MaxRecs == 2         \* RSA records ever allocated (addresses are not reused)
MaxBio == 1          \* PEM blocks held by the stream
MinBits == 8         \* smallest modulus size generate_private_key is asked for
NumPass == 1         \* distinct passphrases (0 is "no passphrase")

Handles == 1..MaxHandles
Recs == 1..MaxRecs
Ctrls == 1..MaxHandles          \* at most one control block per live handle
NULL == 0
Passphrases == 0..NumPass

VARIABLES
    handles,    \* [Handles -> [alive, px, pn]]: m_rsa of each rsa_key object
    counts,     \* [Ctrls -> [use_count, ptr]]: shared_ptr control blocks
    heap,       \* [Recs -> RSA record]: the library's key-material records
    bio,        \* the PEM stream: a sequence of PEM blocks
    last        \* what the last call did: [op, res, h, val], and for the
                \* transforms also [alg, inp, cap, out, src]

vars == <<handles, counts, heap, bio, last>>

\* ------------------------------------------------------------- arithmetic
RECURSIVE Pow2(_)
Pow2(k) == IF k = 0 THEN 1 ELSE 2 * Pow2(k - 1)

Min(a, b) == IF a < b THEN a ELSE b

\* -------------------------------------------------------- the RSA records
\* state: "unalloc" (never allocated), "live", "freed" (RSA_free was called)
\* kind : "none" | "empty" (RSA_new, no parameters) | "pub" (n, e) |
\*        "priv" (n, e, d, p, q, ...)
\* n, low: the modulus, held as its leading part n and the count low of whole
\*        bytes below it (0 for a modulus that fits a machine integer)
\* frees: how many times RSA_free was called on the record (history)
\* owners: how many control blocks were ever created over it (history)
NoRec == [state |-> "unalloc", kind |-> "none", n |-> 0, low |-> 0,
          blinding |-> FALSE,
          frees |-> 0, owners |-> 0, genbits |-> 0, e |-> 0]

EmptyRec == [NoRec EXCEPT !.state = "live", !.kind = "empty"]

NoHandle == [alive |-> FALSE, px |-> NULL, pn |-> NULL]
NoCtrl == [use_count |-> 0, ptr |-> NULL]

Outcome(op, res, h, val) == [op |-> op, res |-> res, h |-> h, val |-> val]

Running == last.res # "crash"

Alive == {h \in Handles : handles[h].alive}
Dead == {h \in Handles : ~handles[h].alive}
FreeRecs == {r \in Recs : heap[r].state = "unalloc"}
LiveRecs == {r \in Recs : heap[r].state = "live"}
FreeCtrls == {c \in Ctrls : counts[c].use_count = 0}

\* the allocator hands out the lowest unused address / block
NewRec == CHOOSE r \in FreeRecs : \A s \in FreeRecs : r <= s
NewCtrl == CHOOSE c \in FreeCtrls : \A d \in FreeCtrls : c <= d
NewHandle == CHOOSE h \in Dead : \A g \in Dead : h <= g

\* the record a library call on pointer p touches is not there any more
Dangling(p) == p # NULL /\ heap[p].state = "freed"

\* ------------------------------------------------------------- RSA_free
\* the parameters are cleared and the memory is given back; frees and owners
\* are kept as history
RSA_free(hp, p) ==
    IF p = NULL THEN hp
    ELSE [hp EXCEPT ![p] = [NoRec EXCEPT !.state = "freed",
                                         !.owners = hp[p].owners,
                                         !.frees = Min(hp[p].frees + 1, 2)]]

\* ------------------------------------------------- boost::shared_ptr<RSA>
\* shared_ptr(p, RSA_free): a new control block owning p
sp_make(cs, p) ==
    [cs EXCEPT ![NewCtrl] = [use_count |-> 1, ptr |-> p]]

sp_owned(hp, p) ==
    IF p = NULL THEN hp ELSE [hp EXCEPT ![p].owners = Min(@ + 1, 2)]

\* a copy that forgets to count itself
sp_copy_uncounted(cs, c) == cs

\* shared_ptr copy: one more owner of the same block
sp_copy(cs, c) == [cs EXCEPT ![c].use_count = @ + 1]

\* shared_ptr destructor: the count drops, the deleter runs at zero
sp_release_counts(cs, c) ==
    IF cs[c].use_count = 1 THEN [cs EXCEPT ![c] = NoCtrl]
    ELSE [cs EXCEPT ![c].use_count = @ - 1]

\* a release tied to each handle's destruction instead of the count
sp_release_heap_each(cs, hp, c) == RSA_free(hp, cs[c].ptr)

sp_release_heap(cs, hp, c) ==
    IF cs[c].use_count = 1 THEN RSA_free(hp, cs[c].ptr) ELSE hp

\* the deleter would run on a record that was already released
sp_release_twice(cs, hp, c) ==
    cs[c].use_count = 1 /\ Dangling(cs[c].ptr)

\* m_rsa.get()
raw(h) == handles[h].px

TypeOK ==
    /\ handles \in [Handles -> [alive : BOOLEAN, px : Recs \cup {NULL},
                                pn : Ctrls \cup {NULL}]]
    /\ counts \in [Ctrls -> [use_count : 0..MaxHandles, ptr : Recs \cup {NULL}]]
    /\ \A r \in Recs : heap[r].state \in {"unalloc", "live", "freed"}

Init ==
    /\ handles = [h \in Handles |-> NoHandle]
    /\ counts = [c \in Ctrls |-> NoCtrl]
    /\ heap = [r \in Recs |-> NoRec]
    /\ bio = <<>>
    /\ last = Outcome("init", "ok", NULL, 0)

\* ---------------------------------------------------------- construction
\* rsa_key::rsa_key(): m_rsa(RSA_new(), RSA_free), throw_error_if_not(m_rsa)
rsa_key_default_ok(p) == p # NULL

rsa_key_default ==
    /\ Running /\ Dead # {}
    /\ \E p \in (IF FreeRecs = {} THEN {} ELSE {NewRec}) \cup {NULL} :
        IF rsa_key_default_ok(p)
        THEN /\ handles' = [handles EXCEPT ![NewHandle] =
                              [alive |-> TRUE, px |-> p, pn |-> NewCtrl]]
             /\ counts' = sp_make(counts, p)
             /\ heap' = sp_owned(IF p = NULL THEN heap
                                 ELSE [heap EXCEPT ![p] = EmptyRec], p)
             /\ last' = Outcome("rsa_key", "ok", NewHandle, p)
        ELSE /\ last' = Outcome("rsa_key", "crypto_error", NULL, p)
             /\ UNCHANGED <<handles, counts, heap>>
    /\ UNCHANGED bio

\* the caller's own RSA_new(): a record no handle owns yet
user_RSA_new ==
    /\ Running /\ FreeRecs # {}
    /\ heap' = [heap EXCEPT ![NewRec] = EmptyRec]
    /\ last' = Outcome("RSA_new", "ok", NULL, NewRec)
    /\ UNCHANGED <<handles, counts, bio>>

\* rsa_key::rsa_key(RSA* rsa): m_rsa(rsa, RSA_free); if (!m_rsa) throw
\* std::invalid_argument.  rsa is NULL, a record of the caller, or the
\* pointer raw() of a live handle returned.
\* the null check left out
rsa_key_from_raw_unchecked(p) == TRUE

rsa_key_from_raw_ok(p) == p # NULL

rsa_key_from_raw(p) ==
    /\ Running /\ Dead # {}
    /\ IF rsa_key_from_raw_ok(p)
       THEN /\ handles' = [handles EXCEPT ![NewHandle] =
                             [alive |-> TRUE, px |-> p, pn |-> NewCtrl]]
            /\ counts' = sp_make(counts, p)
            /\ heap' = sp_owned(heap, p)
            /\ last' = Outcome("rsa_key(RSA*)", "ok", NewHandle, p)
       ELSE \* the temporary shared_ptr runs RSA_free(NULL): nothing happens
            /\ last' = Outcome("rsa_key(RSA*)", "invalid_argument", NULL, p)
            /\ UNCHANGED <<handles, counts, heap>>
    /\ UNCHANGED bio

\* the implicit copy constructor: m_rsa is copied
copy_construct(src) ==
    /\ Running /\ Dead # {} /\ handles[src].alive
    /\ handles' = [handles EXCEPT ![NewHandle] = handles[src]]
    /\ counts' = sp_copy(counts, handles[src].pn)
    /\ last' = Outcome("copy", "ok", NewHandle, src)
    /\ UNCHANGED <<heap, bio>>

\* the implicit copy assignment dst = src: dst's old share is released
copy_assign(dst, src) ==
    /\ Running /\ handles[dst].alive /\ handles[src].alive
    /\ LET cs == sp_copy(counts, handles[src].pn)
           c == handles[dst].pn
       IN /\ handles' = [handles EXCEPT ![dst] = handles[src]]
          /\ counts' = sp_release_counts(cs, c)
          /\ heap' = sp_release_heap(cs, heap, c)
          /\ IF sp_release_twice(cs, heap, c)
             THEN \E res \in {"ok", "crash"} :
                      last' = Outcome("assign", res, dst, src)
             ELSE last' = Outcome("assign", "ok", dst, src)
    /\ UNCHANGED bio

\* the implicit destructor: m_rsa is released
destroy(h) ==
    /\ Running /\ handles[h].alive
    /\ LET c == handles[h].pn
       IN /\ handles' = [handles EXCEPT ![h] = NoHandle]
          /\ counts' = sp_release_counts(counts, c)
          /\ heap' = sp_release_heap(counts, heap, c)
          /\ IF sp_release_twice(counts, heap, c)
             THEN \E res \in {"ok", "crash"} :
                      last' = Outcome("destroy", res, h, 0)
             ELSE last' = Outcome("destroy", "ok", h, 0)
    /\ UNCHANGED bio

\* ------------------------------------------------------- key generation
RECURSIVE BN_num_bits(_)
BN_num_bits(n) == IF n = 0 THEN 0 ELSE 1 + BN_num_bits(n \div 2)

\* the moduli RSA_generate_key can return for num bits: the product of two
\* primes whose top bits are set has exactly num bits
\* (given by their leading part: LowBytes(num) whole bytes lie below it)
LowBytes(num) == IF num <= 30 THEN 0 ELSE (num - 2) \div 8

Moduli(num) ==
    LET top == num - 8 * LowBytes(num)
    IN {Pow2(top - 1) + 1, Pow2(top) - 1}

KeyRec(kind, n, low, e, genbits) ==
    [EmptyRec EXCEPT !.kind = kind, !.n = n, !.low = low, !.e = e,
                     !.genbits = genbits]

\* the private constructor without its check
rsa_key_from_shared_unchecked(p) == TRUE

\* rsa_key::rsa_key(boost::shared_ptr<RSA> rsa): throw_error_if_not(m_rsa)
rsa_key_from_shared_ok(p) == p # NULL

\* what every factory does with the pointer the library returned: wrap it in
\* shared_ptr<RSA>(p, RSA_free) and hand that to the private constructor
wrap(op, p, rec, arg) ==
    IF rsa_key_from_shared_ok(p)
    THEN /\ handles' = [handles EXCEPT ![NewHandle] =
                          [alive |-> TRUE, px |-> p, pn |-> NewCtrl]]
         /\ counts' = sp_make(counts, p)
         /\ heap' = sp_owned(IF p = NULL THEN heap
                             ELSE [heap EXCEPT ![p] = rec], p)
         /\ last' = Outcome(op, "ok", NewHandle, arg)
    ELSE /\ last' = Outcome(op, "crypto_error", NULL, arg)
         /\ UNCHANGED <<handles, counts, heap>>

\* rsa_key::generate_private_key(num, exponent, callback, callback_arg): the
\* library returns a new private key of num bits, or NULL (an even exponent,
\* a failed prime search or allocation)
generate_private_key(num, exponent, n) ==
    /\ Running /\ Dead # {} /\ FreeRecs # {}
    /\ n \in Moduli(num)
    /\ \E p \in (IF exponent % 2 = 1 THEN {NewRec} ELSE {}) \cup {NULL} :
           wrap("generate_private_key", p, KeyRec("priv", n, LowBytes(num), exponent, num), num)
    /\ UNCHANGED bio

\* ----------------------------------------------------------------- PEM
PRIVATE == "RSA PRIVATE KEY"
PUBLIC == "RSA PUBLIC KEY"
PUBKEY == "PUBLIC KEY"
PemNames == {PRIVATE, PUBLIC, PUBKEY}

\* a PEM block: its name, what its DER body is ("priv": RSAPrivateKey, "pub":
\* RSAPublicKey, "spki": SubjectPublicKeyInfo, "bad": a body with mandatory
\* fields missing), and the passphrase it is encrypted with (0: none)
Block(name, kind, n, low, e, pw) ==
    [name |-> name, kind |-> kind, n |-> n, low |-> low, e |-> e, pw |-> pw]

\* PEM_bytes_read_bio's check_pem: a block is taken only under its own name
PEM_name_matches(found, wanted) == found = wanted

\* PEM_bytes_read_bio: blocks of other names are skipped up to the end
RECURSIVE pem_find(_, _, _)
pem_find(s, wanted, i) ==
    IF i > Len(s) THEN 0
    ELSE IF PEM_name_matches(s[i].name, wanted) THEN i
    ELSE pem_find(s, wanted, i + 1)

\* d2i of the body (after decryption with the callback's passphrase cb)
BodyOf(name) ==
    CASE name = PRIVATE -> "priv" [] name = PUBLIC -> "pub" [] OTHER -> "spki"

pem_decodes(b, wanted, cb) ==
    /\ b.kind = BodyOf(wanted)
    /\ b.pw = 0 \/ b.pw = cb

\* PEM_read_bio_RSAPrivateKey / _RSAPublicKey / _RSA_PUBKEY and the FILE*
\* forms, wrapped by the private constructor.  consume: the source is a
\* stream (read up to the end of the block taken) and not a buffer.
pem_load(op, wanted, cb, consume) ==
    /\ Running /\ Dead # {} /\ FreeRecs # {}
    /\ LET i == pem_find(bio, wanted, 1)
           good == i # 0 /\ pem_decodes(bio[i], wanted, cb)
       IN /\ IF good
             THEN wrap(op, NewRec,
                       KeyRec(IF wanted = PRIVATE THEN "priv" ELSE "pub",
                             bio[i].n, bio[i].low, bio[i].e, 0), i)
             ELSE wrap(op, NULL, NoRec, i)
          /\ bio' = IF ~consume THEN bio
                    ELSE IF i = 0 THEN <<>>
                    ELSE SubSeq(bio, i + 1, Len(bio))

from_private_key_bio(cb) == pem_load("from_private_key", PRIVATE, cb, TRUE)
\* from_public_key calling the reader of the certificate format
from_public_key_bio_pubkey(cb) == pem_load("from_public_key", PUBKEY, cb, TRUE)

from_public_key_bio(cb) == pem_load("from_public_key", PUBLIC, cb, TRUE)
from_certificate_public_key_bio(cb) ==
    pem_load("from_certificate_public_key", PUBKEY, cb, TRUE)
from_private_key_file(cb) == pem_load("from_private_key", PRIVATE, cb, TRUE)
from_public_key_file(cb) == pem_load("from_public_key", PUBLIC, cb, TRUE)
from_certificate_public_key_file(cb) ==
    pem_load("from_certificate_public_key", PUBKEY, cb, TRUE)
from_private_key_buf(cb) == pem_load("from_private_key", PRIVATE, cb, FALSE)
from_public_key_buf(cb) == pem_load("from_public_key", PUBLIC, cb, FALSE)
from_certificate_public_key_buf(cb) ==
    pem_load("from_certificate_public_key", PUBKEY, cb, FALSE)

\* the results PEM_write_* can return: 1, or 0 (the sink fails, or the
\* library refuses the record).  The record is handed over as it is: for a
\* record without the material the format needs the library either refuses
\* or writes a body with the missing fields left out.
PEM_write_results == {1, 0}

body(name, rec) ==
    IF rec.kind = "priv" \/ (rec.kind = "pub" /\ name # PRIVATE)
    THEN BodyOf(name) ELSE "bad"

\* error::throw_error_if_not(condition)
throw_error_if_not(cond) == IF cond THEN "ok" ELSE "crypto_error"

pem_write(op, h, blk, results) ==
    /\ Running /\ handles[h].alive /\ Len(bio) < MaxBio
    /\ \/ /\ Dangling(raw(h))
          /\ last' = Outcome(op, "crash", h, 0)
          /\ UNCHANGED bio
       \/ \E r \in results :
            /\ last' = Outcome(op, throw_error_if_not(r # 0), h, r)
            /\ bio' = IF r # 0 THEN Append(bio, blk) ELSE bio
    /\ UNCHANGED <<handles, counts, heap>>

\* write_private_key(bio | file, algorithm, passphrase, passphrase_len) and
\* write_private_key(bio | file, algorithm, callback, callback_arg)
write_private_key(h, pw) ==
    LET rec == heap[raw(h)]
    IN pem_write("write_private_key", h,
                 Block(PRIVATE, body(PRIVATE, rec), rec.n, rec.low, rec.e,
                       IF rec.kind = "priv" THEN pw ELSE 0),
                 PEM_write_results)

write_public_key(h) ==
    LET rec == heap[raw(h)]
    IN pem_write("write_public_key", h,
                 Block(PUBLIC, body(PUBLIC, rec), rec.n, rec.low, rec.e, 0),
                 PEM_write_results)

write_certificate_public_key(h) ==
    LET rec == heap[raw(h)]
    IN pem_write("write_certificate_public_key", h,
                 Block(PUBKEY, body(PUBKEY, rec), rec.n, rec.low, rec.e, 0),
                 PEM_write_results)

\* ------------------------------------------------------------- blinding
\* RSA_blinding_off: the blinding is dropped
RSA_blinding_off(hp, p) == [hp EXCEPT ![p].blinding = FALSE]

\* a blinding switch that is not the record's own
RSA_blinding_on_everywhere(hp, p, r) ==
    [q \in DOMAIN hp |-> [hp[q] EXCEPT !.blinding = (r = 1)]]

\* RSA_blinding_on: an existing blinding is dropped first, then a new one is
\* set up; r is the result (1, or 0 when the set-up fails)
RSA_blinding_on(hp, p, r) == [hp EXCEPT ![p].blinding = (r = 1)]

\* the results RSA_blinding_on can return: the set-up needs the public
\* exponent, and it allocates
RSA_blinding_on_results(rec) ==
    IF rec.kind \in {"pub", "priv"} THEN {1, 0} ELSE {0}

\* a call on a handle whose record was released under it: the library reads
\* released memory, and the call crashes or goes on with what is there
use_after_free(op, h) ==
    /\ Dangling(raw(h))
    /\ last' = Outcome(op, "crash", h, 0)
    /\ UNCHANGED <<handles, counts, heap, bio>>

\* rsa_key::enable_blinding(ctx)
enable_blinding(h) ==
    /\ Running /\ handles[h].alive
    /\ \/ use_after_free("enable_blinding", h)
       \/ \E r \in RSA_blinding_on_results(heap[raw(h)]) :
            /\ heap' = RSA_blinding_on(heap, raw(h), r)
            /\ last' = Outcome("enable_blinding", throw_error_if_not(r # 0), h, r)
            /\ UNCHANGED <<handles, counts, bio>>

\* rsa_key::disable_blinding()
disable_blinding(h) ==
    /\ Running /\ handles[h].alive
    /\ \/ use_after_free("disable_blinding", h)
       \/ /\ heap' = RSA_blinding_off(heap, raw(h))
          /\ last' = Outcome("disable_blinding", "ok", h, 0)
          /\ UNCHANGED <<handles, counts, bio>>

\* what a private-key operation through h sees of the blinding
blinding_of(h) == heap[raw(h)].blinding

\* ----------------------------------------------------- views, diagnostics
\* the byte count rounded down
RSA_size_floor(rec) == (BN_num_bits(rec.n) + 8 * rec.low) \div 8

\* RSA_size: BN_num_bytes(rsa->n) = (BN_num_bits(n) + 7) / 8
RSA_size(rec) == (BN_num_bits(rec.n) + 8 * rec.low + 7) \div 8

\* rsa_key::size(): on a record without a modulus the library dereferences
\* a null BIGNUM
size(h) ==
    /\ Running /\ handles[h].alive
    /\ \/ use_after_free("size", h)
       \/ /\ heap[raw(h)].kind = "empty"
          /\ last' = Outcome("size", "crash", h, 0)
          /\ UNCHANGED <<handles, counts, heap, bio>>
       \/ /\ last' = Outcome("size", "ok", h, RSA_size(heap[raw(h)]))
          /\ UNCHANGED <<handles, counts, heap, bio>>

\* the results RSA_check_key can return: 1 (valid), 0 (not valid), -1 (an
\* error while checking)
RSA_check_key_results(rec) ==
    IF rec.kind = "priv" THEN {1, 0, -1} ELSE {0, -1}

\* RSA_check_key on a record without private material may also dereference
\* the absent p and q: the warning of check() leaves that case to the caller
RSA_check_key_may_crash(rec) == rec.kind # "priv"

\* any non-zero result taken for success
check_ok_nonzero(r) == r # 0

check_ok(r) == r > 0

\* rsa_key::check(): throw_error_if_not(RSA_check_key(m_rsa.get()) > 0)
check(h) ==
    /\ Running /\ handles[h].alive
    /\ \/ use_after_free("check", h)
       \/ /\ RSA_check_key_may_crash(heap[raw(h)])
          /\ last' = Outcome("check", "crash", h, 0)
          /\ UNCHANGED <<handles, counts, heap, bio>>
       \/ \E r \in RSA_check_key_results(heap[raw(h)]) :
            /\ last' = Outcome("check", throw_error_if_not(check_ok(r)), h, r)
            /\ UNCHANGED <<handles, counts, heap, bio>>

\* rsa_key::print(bio | file, offset): RSA_print writes a dump to a sink of
\* its own; 0 when the sink fails
print(h) ==
    /\ Running /\ handles[h].alive
    /\ \/ use_after_free("print", h)
       \/ \E r \in {1, 0} :
            /\ last' = Outcome("print", throw_error_if_not(r # 0), h, r)
            /\ UNCHANGED <<handles, counts, heap, bio>>

\* a public key that is one more handle on the same record
to_public_key_shared(h) ==
    /\ Running /\ handles[h].alive /\ Dead # {} /\ FreeRecs # {}
    /\ handles' = [handles EXCEPT ![NewHandle] = handles[h]]
    /\ counts' = sp_copy(counts, handles[h].pn)
    /\ last' = Outcome("to_public_key", "ok", NewHandle, h)
    /\ UNCHANGED <<heap, bio>>

\* rsa_key::to_public_key(): a new record with the modulus and the public
\* exponent of this one
to_public_key(h) ==
    /\ Running /\ handles[h].alive /\ Dead # {} /\ FreeRecs # {}
    /\ \/ use_after_free("to_public_key", h)
       \/ /\ LET rec == heap[raw(h)]
             IN IF rec.kind \in {"pub", "priv"}
                THEN wrap("to_public_key", NewRec,
                          KeyRec("pub", rec.n, rec.low, rec.e, 0), h)
                ELSE wrap("to_public_key", NULL, NoRec, h)
          /\ UNCHANGED bio

\* equality of the key parameters instead of the records
OpEq_by_value(lhs, rhs) ==
    /\ heap[raw(lhs)].kind = heap[raw(rhs)].kind
    /\ heap[raw(lhs)].n = heap[raw(rhs)].n
    /\ heap[raw(lhs)].low = heap[raw(rhs)].low
    /\ heap[raw(lhs)].e = heap[raw(rhs)].e

\* operator==(lhs, rhs): lhs.raw() == rhs.raw()
OpEq(lhs, rhs) == raw(lhs) = raw(rhs)

\* operator!=(lhs, rhs): lhs.raw() != rhs.raw()
OpNe(lhs, rhs) == raw(lhs) # raw(rhs)

\* ------------------------------------------------------ the RSA transforms
\* private_encrypt, private_decrypt and sign (buffer form) need the private
\* material, and fail without it
PrivateOps == {"private_encrypt", "private_decrypt", "sign"}

\* the bytes PKCS #1 v1.5 padding adds at least: 00 | bt | 8 of PS | 00
RSA_PKCS1_PADDING_SIZE == 11

\* int padding: the PKCS #1 v1.5 mode
RSA_PKCS1_PADDING == 1

Fill(len, b) == IF len <= 0 THEN <<>> ELSE [i \in 1..len |-> b]

\* the filler bytes of block type 2 are random and non-zero
PadBytes == {1, 255}

\* RSA_padding_add_PKCS1_type_1 / _type_2: 00 | bt | PS | 00 | data, k bytes
pkcs1_pad(bt, k, ps, data) ==
    <<0, bt>> \o Fill(k - 3 - Len(data), ps) \o <<0>> \o data

\* the data a block can take: at least 8 bytes of PS are left
pkcs1_fits(k, len) == len <= k - RSA_PKCS1_PADDING_SIZE

\* the first zero byte at or after position i (0: none)
RECURSIVE pkcs1_sep(_, _)
pkcs1_sep(em, i) ==
    IF i > Len(em) THEN 0
    ELSE IF em[i] = 0 THEN i
    ELSE pkcs1_sep(em, i + 1)

\* RSA_padding_check_PKCS1_type_1 / _type_2 on a block of k bytes
pkcs1_check(bt, k, em) ==
    /\ Len(em) = k /\ k >= RSA_PKCS1_PADDING_SIZE
    /\ em[1] = 0 /\ em[2] = bt
    /\ pkcs1_sep(em, 3) >= RSA_PKCS1_PADDING_SIZE
    /\ bt = 1 => \A i \in 3..(pkcs1_sep(em, 3) - 1) : em[i] = 255

\* the data with the separator kept
pkcs1_data_from_sep(em) == SubSeq(em, pkcs1_sep(em, 3), Len(em))

pkcs1_data(em) == SubSeq(em, pkcs1_sep(em, 3) + 1, Len(em))

\* what identifies a key pair: the modulus and the public exponent
KeyOf(rec) == <<rec.n, rec.low, rec.e>>

\* the number em^e mod n (with = "pub") or em^d mod n (with = "priv"), kept
\* as a term: size() bytes that reveal em only to the other exponent
RSA_transform(with, rec, em) == [key |-> KeyOf(rec), with |-> with, em |-> em]

\* the other exponent of the same key gives em back; any other exponent, key
\* or input gives a block that no padding check accepts
RSA_inverse(with, rec, c) ==
    IF c.key = KeyOf(rec) /\ c.with # with /\ c.with # "none" THEN c.em
    ELSE <<>>

\* a buffer that is the output of no transform, and one altered on its way
NoCipher == [key |-> <<0, 0, 0>>, with |-> "none", em |-> <<>>]
Tamper(c) == [c EXCEPT !.em = <<>>]

\* a transform that asks for the private material whichever exponent it uses
has_key_private(with, rec) == rec.kind = "priv"

\* the material a transform needs: the public exponent is in every key, the
\* private one in private-bearing keys only
has_key(with, rec) ==
    rec.kind = "priv" \/ (with = "pub" /\ rec.kind = "pub")

\* the outcome of a transform: the padding mode or the digest algorithm,
\* the input, the room in out, what was written to out, and where the input
\* came from (src: the call that produced it, when there is one)
NoSrc == [alg |-> -1, inp |-> <<>>, key |-> <<0, 0, 0>>, h |-> NULL]

CryptOutcome(op, res, h, val, alg, inp, cap, out, src) ==
    [op |-> op, res |-> res, h |-> h, val |-> val, alg |-> alg, inp |-> inp,
     cap |-> cap, out |-> out, src |-> src]

Failed(op, h, alg, inp, cap, src) ==
    CryptOutcome(op, "crypto_error", h, -1, alg, inp, cap, NoCipher, src)

\* the buffers a caller can pass on: what the last call wrote, if it was one
\* of ops and succeeded, the same altered, and one that was never written
Received(ops) ==
    {[buf |-> NoCipher, src |-> NoSrc]} \cup
    (IF last.op \in ops /\ last.res = "ok"
     THEN LET src == [alg |-> last.alg, inp |-> last.inp,
                      key |-> KeyOf(heap[raw(last.h)]), h |-> last.h]
          IN {[buf |-> last.out, src |-> src],
              [buf |-> Tamper(last.out), src |-> NoSrc]}
     ELSE {})

\* the plaintexts tried with a key of k bytes: empty, with zero bytes, of
\* the longest length that fits, and one byte longer
Plaintexts(k) ==
    {<<>>, <<0>>, <<7, 0, 7>>,
     Fill(k - RSA_PKCS1_PADDING_SIZE, 7), Fill(k - RSA_PKCS1_PADDING_SIZE, 0),
     Fill(k - RSA_PKCS1_PADDING_SIZE + 1, 7)}

\* RSA_public_encrypt / RSA_private_encrypt with PKCS #1 v1.5 padding (block
\* type 2 / 1) through h, the result checked by throw_error_if_not: size()
\* bytes are written
encrypt(op, with, bt, h, M, ps) ==
    /\ Running /\ handles[h].alive
    /\ \/ use_after_free(op, h)
       \/ /\ LET rec == heap[raw(h)]
                 k == RSA_size(rec)
                 has == has_key(with, rec)
             IN last' =
                 IF has /\ pkcs1_fits(k, Len(M))
                 THEN CryptOutcome(op, "ok", h, k, RSA_PKCS1_PADDING, M, k,
                          RSA_transform(with, rec, pkcs1_pad(bt, k, ps, M)),
                          NoSrc)
                 ELSE Failed(op, h, RSA_PKCS1_PADDING, M, k, NoSrc)
          /\ UNCHANGED <<handles, counts, heap, bio>>

\* RSA_private_decrypt / RSA_public_decrypt with PKCS #1 v1.5 padding through
\* h on the buffer r.buf: the data is written, and its length returned
decrypt(op, with, bt, h, r) ==
    /\ Running /\ handles[h].alive
    /\ \/ use_after_free(op, h)
       \/ /\ LET rec == heap[raw(h)]
                 k == RSA_size(rec)
                 has == has_key(with, rec)
                 em == RSA_inverse(with, rec, r.buf)
             IN last' =
                 IF has /\ pkcs1_check(bt, k, em)
                 THEN CryptOutcome(op, "ok", h, Len(pkcs1_data(em)),
                          RSA_PKCS1_PADDING, r.buf, k, pkcs1_data(em), r.src)
                 ELSE Failed(op, h, RSA_PKCS1_PADDING, r.buf, k, r.src)
          /\ UNCHANGED <<handles, counts, heap, bio>>

private_encrypt(h, M) == encrypt("private_encrypt", "priv", 1, h, M, 255)
public_decrypt(h, r) == decrypt("public_decrypt", "pub", 1, h, r)
public_encrypt(h, M, ps) == encrypt("public_encrypt", "pub", 2, h, M, ps)
private_decrypt(h, r) == decrypt("private_decrypt", "priv", 2, h, r)

\* int type: the NIDs of the digest algorithms
NID_undef == 0
NID_md5 == 4
NID_sha1 == 64
DigestTypes == {NID_undef, NID_md5, NID_sha1}

\* the length of a digest of the algorithm and of the DER header that names
\* it in a DigestInfo (0: no digest algorithm the library knows)
DigestLen(type) ==
    CASE type = NID_sha1 -> 20 [] type = NID_md5 -> 16 [] OTHER -> 0

HeaderLen(type) ==
    CASE type = NID_sha1 -> 15 [] type = NID_md5 -> 18 [] OTHER -> 0

\* the DigestInfo that is signed: the header of the algorithm, the digest
DigestInfo(type, D) == Fill(HeaderLen(type), type) \o D

\* the digests tried: two of 20 bytes, one of 16
Digests == {Fill(20, 0), Fill(20, 9), Fill(16, 9)}

\* RSA_sign(type, buf, buf_len, out, &len, rsa): what it can do.  It needs
\* the private material, a known algorithm and a key that takes the padded
\* DigestInfo; a digest of another length than the algorithm's is rejected
\* by some versions of the library and signed as it is by others; size()
\* bytes are written, past the end of an out that is shorter
sign_results(rec, out_len, D, type) ==
    LET k == RSA_size(rec)
        T == DigestInfo(type, D)
        able == /\ rec.kind = "priv" /\ DigestLen(type) # 0
                /\ pkcs1_fits(k, Len(T))
        failure == [res |-> "crypto_error", val |-> -1, out |-> NoCipher]
        success == [res |-> "ok", val |-> k,
                    out |-> RSA_transform("priv", rec,
                                          pkcs1_pad(1, k, 255, T))]
    IN IF ~able THEN {failure}
       ELSE {success}
            \cup (IF Len(D) # DigestLen(type) THEN {failure} ELSE {})
            \cup (IF out_len < k
                  THEN {[res |-> "crash", val |-> 0, out |-> NoCipher]}
                  ELSE {})

\* rsa_key::sign(out, out_len, buf, buf_len, type): the result of RSA_sign
\* checked by throw_error_if_not, the count of bytes written returned
sign(h, out_len, D, type) ==
    /\ Running /\ handles[h].alive
    /\ \/ use_after_free("sign", h)
       \/ /\ \E r \in sign_results(heap[raw(h)], out_len, D, type) :
                last' = CryptOutcome("sign", r.res, h, r.val, type, D,
                                     out_len, r.out, NoSrc)
          /\ UNCHANGED <<handles, counts, heap, bio>>

\* rsa_key::verify(sign, sign_len, buf, buf_len, type): RSA_verify recovers
\* the padded block with the public exponent and compares it with the
\* DigestInfo of buf; the result is checked by throw_error_if_not
verify(h, r, D, type) ==
    /\ Running /\ handles[h].alive
    /\ \/ use_after_free("verify", h)
       \/ /\ LET rec == heap[raw(h)]
                 k == RSA_size(rec)
                 em == RSA_inverse("pub", rec, r.buf)
                 good == /\ has_key("pub", rec)
                         /\ DigestLen(type) # 0
                         /\ pkcs1_check(1, k, em)
                         /\ pkcs1_data(em) = DigestInfo(type, D)
             IN last' = CryptOutcome("verify", throw_error_if_not(good), h,
                                     0, type, D, 0, r.buf, r.src)
          /\ UNCHANGED <<handles, counts, heap, bio>>

\* a result container of as many elements as the digest has bytes
sign_alloc_digest(rec, buf_len) == buf_len

\* std::vector<T> result(size())
sign_alloc(rec, buf_len) == RSA_size(rec)

\* result.resize(count): the length of the container afterwards
resize(result_len, count) == count

\* rsa_key::sign<T>(buf, buf_len, type): result(size()), then
\* result.resize(sign(&result[0], result.size(), buf, buf_len, type)), then
\* return result; an exception of sign leaves before anything is returned
sign_vector(h, D, type) ==
    /\ Running /\ handles[h].alive
    /\ \/ use_after_free("sign<T>", h)
       \/ /\ heap[raw(h)].kind = "empty"
          /\ last' = Outcome("sign<T>", "crash", h, 0)
          /\ UNCHANGED <<handles, counts, heap, bio>>
       \/ /\ LET rec == heap[raw(h)]
                 result == sign_alloc(rec, Len(D))
             IN \E r \in sign_results(rec, result, D, type) :
                   last' = IF r.res = "ok"
                           THEN CryptOutcome("sign<T>", "ok", h,
                                    resize(result, r.val), type, D, result,
                                    r.out, NoSrc)
                           ELSE CryptOutcome("sign<T>", r.res, h, -1, type, D,
                                    result, NoCipher, NoSrc)
          /\ UNCHANGED <<handles, counts, heap, bio>>

\* size() of the key behind a handle, as a caller sizes its buffers
SizeOf(h) == RSA_size(heap[raw(h)])

Exponents == {3, 4}

Construct ==
    \/ rsa_key_default
    \/ user_RSA_new
    \/ \E p \in {NULL} \cup LiveRecs : rsa_key_from_raw(p)

\* the same, with rsa_key(RSA*) given only records that no handle owns
Unowned == {r \in LiveRecs : heap[r].owners = 0}

ConstructUnowned ==
    \/ rsa_key_default
    \/ user_RSA_new
    \/ \E p \in {NULL} \cup Unowned : rsa_key_from_raw(p)

Share ==
    \/ \E h \in Handles : copy_construct(h)
    \/ \E d, s \in Handles : copy_assign(d, s)
    \/ \E h \in Handles : destroy(h)

Generate ==
    \E e \in Exponents, n \in Moduli(MinBits) :
        generate_private_key(MinBits, e, n)

Load ==
    \/ \E cb \in Passphrases : from_private_key_bio(cb)
    \/ \E cb \in Passphrases : from_public_key_bio(cb)
    \/ \E cb \in Passphrases : from_certificate_public_key_bio(cb)
    \/ \E cb \in Passphrases : from_private_key_file(cb)
    \/ \E cb \in Passphrases : from_public_key_file(cb)
    \/ \E cb \in Passphrases : from_certificate_public_key_file(cb)
    \/ \E cb \in Passphrases : from_private_key_buf(cb)
    \/ \E cb \in Passphrases : from_public_key_buf(cb)
    \/ \E cb \in Passphrases : from_certificate_public_key_buf(cb)

Store ==
    \/ \E h \in Handles, pw \in Passphrases : write_private_key(h, pw)
    \/ \E h \in Handles : write_public_key(h)
    \/ \E h \in Handles : write_certificate_public_key(h)

Blinding ==
    \/ \E h \in Handles : enable_blinding(h)
    \/ \E h \in Handles : disable_blinding(h)

Views ==
    \/ \E h \in Handles : size(h)
    \/ \E h \in Handles : check(h)
    \/ \E h \in Handles : print(h)
    \/ \E h \in Handles : to_public_key(h)

Private ==
    \/ \E h \in Alive : \E M \in Plaintexts(SizeOf(h)) : private_encrypt(h, M)
    \/ \E h \in Alive : \E r \in Received({"public_encrypt"}) :
          private_decrypt(h, r)
    \/ \E h \in Alive : \E type \in DigestTypes :
          sign(h, SizeOf(h), Fill(DigestLen(type), 9), type)

\* the lifecycle of handles and records
Next == Construct \/ Share
Spec == Init /\ [][Next]_vars

\* keys stored and loaded
NextPem ==
    \/ Generate \/ ConstructUnowned \/ Store \/ Load
    \/ \E h \in Handles : destroy(h)
SpecPem == Init /\ [][NextPem]_vars

\* blinding of shared keys
NextBlind ==
    \/ Generate \/ Share \/ Blinding
SpecBlind == Init /\ [][NextBlind]_vars

\* private-key operations on private and on public-only keys
NextPriv ==
    \/ Generate \/ Private
    \/ \E h \in Handles : to_public_key(h)
    \/ \E h \in Handles : check(h)
    \/ \E h \in Handles, pw \in Passphrases : write_private_key(h, pw)
    \/ \E h \in Handles : destroy(h)
SpecPriv == Init /\ [][NextPriv]_vars

\* the size of generated keys
MaxBits == 24
SizeBits == MinBits..MaxBits

\* one key at a time, of every size
GenerateSized ==
    /\ Alive = {}
    /\ \E num \in SizeBits, e \in Exponents :
          \E n \in Moduli(num) : generate_private_key(num, e, n)

NextSize ==
    \/ GenerateSized
    \/ rsa_key_default
    \/ \E h \in Handles : size(h)
    \/ \E h \in Handles : print(h)
    \/ \E h \in Handles : destroy(h)
SpecSize == Init /\ [][NextSize]_vars

\* encryption and decryption with keys that take a padded block
MinCryptBits == 363
CryptBits == {MinCryptBits, MinCryptBits + 8}

GenerateCrypt ==
    \E num \in CryptBits, e \in Exponents :
        \E n \in Moduli(num) : generate_private_key(num, e, n)

NextCrypt ==
    \/ GenerateCrypt
    \/ \E h \in Handles : to_public_key(h)
    \/ \E h \in Handles : destroy(h)
    \/ \E h \in Alive : \E M \in Plaintexts(SizeOf(h)), ps \in PadBytes :
          public_encrypt(h, M, ps)
    \/ \E h \in Alive : \E r \in Received({"public_encrypt"}) :
          private_decrypt(h, r)
    \/ \E h \in Alive : \E M \in Plaintexts(SizeOf(h)) : private_encrypt(h, M)
    \/ \E h \in Alive : \E r \in Received({"private_encrypt"}) :
          public_decrypt(h, r)
SpecCrypt == Init /\ [][NextCrypt]_vars

\* signatures, with keys that take the padded DigestInfo of every digest
\* and keys that are one byte short of it
SignBits == {MinCryptBits - 8, MinCryptBits}

\* one key pair at a time, with its copies and projections
GenerateSign ==
    /\ Alive = {}
    /\ \E num \in SignBits, e \in Exponents :
          \E n \in Moduli(num) : generate_private_key(num, e, n)

NextSign ==
    \/ GenerateSign
    \/ \E h \in Handles : copy_construct(h)
    \/ \E h \in Handles : to_public_key(h)
    \/ \E h \in Handles : destroy(h)
    \/ \E h \in Alive : \E D \in Digests, type \in DigestTypes :
          sign(h, SizeOf(h), D, type)
    \/ \E h \in Alive : \E D \in Digests, type \in DigestTypes :
          sign_vector(h, D, type)
    \/ \E h \in Alive : \E r \in Received({"sign", "sign<T>"}) :
          \E D \in Digests, type \in DigestTypes : verify(h, r, D, type)
SpecSign == Init /\ [][NextSign]_vars

\* ----------------------------------------------------------------- claims
\* the record a handle shares the ownership of, and whether some handle
\* references a record
record_of(h) == counts[handles[h].pn].ptr
Referenced(r) == \E h \in Handles : handles[h].alive /\ raw(h) = r

\* C1 as stated: a record stays live while at least one handle references
\* it, whatever the handle creations, copies, assignments and destructions.
C1_AsStated ==
    \A r \in Recs : Referenced(r) => heap[r].state = "live"

\* C1: for a record that was handed to at most one ownership count (never
\* wrapped a second time by rsa_key(RSA*)), the record is live while a handle
\* references it, and a step releases it exactly when that step takes away
\* the last handle referencing it.
C1_ReleasedWithLastHandle ==
    /\ [](\A r \in Recs :
            heap[r].owners <= 1 /\ Referenced(r) => heap[r].state = "live")
    /\ [][\A r \in Recs :
            heap'[r].owners <= 1 =>
                ((Referenced(r) /\ ~Referenced(r)')
                 <=> (heap[r].state = "live" /\ heap'[r].state = "freed"))]_vars

\* C1 witness: the last of two handles sharing a record was just destroyed
\* and the record, owned by one count only, is released once.
C1_Witness ==
    /\ last.op = "destroy" /\ last.res = "ok"
    /\ \E r \in Recs : /\ heap[r].owners = 1 /\ heap[r].state = "freed"
                       /\ heap[r].frees = 1 /\ ~Referenced(r)

\* C2 as stated: also with rsa_key(RSA*) applied to raw() of a live handle,
\* no record is released twice and no live handle references a released
\* record.
C2_AsStated ==
    /\ \A r \in Recs : heap[r].frees <= 1
    /\ \A h \in Handles : handles[h].alive => heap[raw(h)].state # "freed"

\* C2: a record handed to at most one ownership count is released at most
\* once, and no live handle references it once it is released.
C2_ReleasedOnce ==
    \A r \in Recs :
        heap[r].owners <= 1 =>
            /\ heap[r].frees <= 1
            /\ ~(Referenced(r) /\ heap[r].state = "freed")

\* C2 witness: one of the handles sharing a record owned by a single count
\* was destroyed: the record is not released and the other handle holds it.
C2_Witness ==
    /\ last.op = "destroy"
    /\ \E r \in Recs : /\ heap[r].owners = 1 /\ heap[r].frees = 0
                       /\ Referenced(r) /\ heap[r].state = "live"
                       /\ \E c \in Ctrls : counts[c].ptr = r /\ counts[c].use_count = 1

\* C6: rsa_key(RSA*) with a null record fails with invalid_argument, yields
\* no handle and changes no handle, count or record; with a present record
\* it succeeds, the new handle references exactly that record, and no other
\* handle or record state changes.
C6_FromRecord ==
    /\ [](last.op = "rsa_key(RSA*)" =>
            IF last.val = NULL
            THEN last.res = "invalid_argument" /\ last.h = NULL
            ELSE /\ last.res = "ok" /\ last.h \in Handles
                 /\ handles[last.h].alive
                 /\ raw(last.h) = last.val
                 /\ record_of(last.h) = last.val)
    /\ [][last'.op = "rsa_key(RSA*)" =>
            IF last'.val = NULL
            THEN UNCHANGED <<handles, counts, heap>>
            ELSE /\ \A g \in Handles \ {last'.h} : handles'[g] = handles[g]
                 /\ \A r \in Recs : heap'[r].state = heap[r].state]_vars

\* C6 witness: rsa_key(RSA*) was refused a null record while another handle
\* holds a live record.
C6_Witness ==
    /\ last.op = "rsa_key(RSA*)" /\ last.res = "invalid_argument"
    /\ \E h \in Handles : handles[h].alive /\ heap[raw(h)].state = "live"

\* C3: every existing handle references a present (non-null, allocated)
\* record that its ownership count owns, and a constructor or loader that
\* fails yields no handle and leaves the handles as they were.
CtorOps ==
    {"rsa_key", "rsa_key(RSA*)", "generate_private_key", "from_private_key",
     "from_public_key", "from_certificate_public_key"}

LoaderOps ==
    {"from_private_key", "from_public_key", "from_certificate_public_key"}

C3_HandleHasRecord ==
    /\ [](\A h \in Handles : handles[h].alive =>
            /\ raw(h) # NULL /\ handles[h].pn # NULL
            /\ record_of(h) = raw(h)
            /\ heap[raw(h)].state # "unalloc")
    /\ [][last'.op \in CtorOps =>
            IF last'.res = "ok"
            THEN last'.h \in Handles /\ handles'[last'.h].alive
            ELSE last'.h = NULL /\ handles' = handles]_vars

\* C3 witness: a loader failed and yielded no handle, while a handle made
\* earlier holds its record.
C3_Witness ==
    /\ last.op \in LoaderOps /\ last.res = "crypto_error" /\ last.h = NULL
    /\ \E h \in Handles : handles[h].alive /\ heap[raw(h)].kind = "priv"

\* C4: a == b holds exactly when a and b share the ownership of the same
\* record, a != b is its negation, and a fresh copy is equal to its source.
C4_IdentityEquality ==
    /\ \A a, b \in Alive :
          /\ OpEq(a, b) <=> record_of(a) = record_of(b)
          /\ OpNe(a, b) <=> ~OpEq(a, b)
    /\ last.op = "copy" => OpEq(last.h, last.val) /\ ~OpNe(last.h, last.val)

\* C4 witness: two handles over distinct records with identical key
\* parameters compare unequal.
C4_Witness ==
    \E a, b \in Alive :
        /\ record_of(a) # record_of(b)
        /\ heap[raw(a)].kind = "priv" /\ heap[raw(b)].kind = "priv"
        /\ heap[raw(a)].n = heap[raw(b)].n /\ heap[raw(a)].e = heap[raw(b)].e
        /\ OpNe(a, b) /\ ~OpEq(a, b)

\* C5: a successful enable_blinding, or a disable_blinding, through handle h
\* sets the blinding seen through every handle that shares h's record, and
\* leaves the blinding seen through every other handle as it was.
C5_BlindingOfRecord ==
    [][\A h \in Handles :
         (/\ last'.h = h
          /\ \/ last'.op = "enable_blinding" /\ last'.res = "ok"
             \/ last'.op = "disable_blinding" /\ last'.res = "ok")
         => \A g \in Alive :
              IF record_of(g) = record_of(h)
              THEN blinding_of(g)' = (last'.op = "enable_blinding")
              ELSE blinding_of(g)' = blinding_of(g)]_vars

\* C5 witness: blinding was enabled through one handle and is seen through
\* another handle sharing the record.
C5_Witness ==
    /\ last.op = "enable_blinding" /\ last.res = "ok"
    /\ \E g \in Alive \ {last.h} :
          record_of(g) = record_of(last.h) /\ blinding_of(g)

\* C7: a loader run on a stream that holds blocks, none of them in the
\* loader's own format, fails with a cryptographic error, yields no handle
\* and creates no record.
WantedOf(op) ==
    CASE op = "from_private_key" -> PRIVATE
      [] op = "from_public_key" -> PUBLIC
      [] OTHER -> PUBKEY

C7_NoFormatDetection ==
    [][(/\ last'.op \in LoaderOps
        /\ bio # <<>>
        /\ \A i \in 1..Len(bio) : bio[i].name # WantedOf(last'.op))
       => /\ last'.res = "crypto_error" /\ last'.h = NULL
          /\ handles' = handles /\ heap' = heap]_vars

\* C7 witness: the public-key-only loader was given a buffer holding a
\* well-formed block of another format, and failed.
C7_Witness ==
    /\ last.op = "from_public_key" /\ last.res = "crypto_error"
    /\ bio # <<>>
    /\ \A i \in 1..Len(bio) : bio[i].name # PUBLIC /\ bio[i].kind # "bad"

\* C8 as stated: every private-key operation on a handle whose record holds
\* only public material ends in a reported cryptographic-operation failure.
AllPrivateOps == PrivateOps \cup {"check", "write_private_key"}

OnPublicOnly ==
    /\ last.op \in AllPrivateOps /\ last.h \in Handles
    /\ handles[last.h].alive /\ heap[raw(last.h)].kind = "pub"

C9_PublicProjection ==
    /\ []((/\ last.op = "to_public_key" /\ last.res = "ok"
           /\ heap[raw(last.val)].kind = "priv")
          => /\ OpNe(last.h, last.val)
             /\ heap[raw(last.h)].kind = "pub"
             /\ heap[raw(last.h)].n = heap[raw(last.val)].n
             /\ heap[raw(last.h)].low = heap[raw(last.val)].low
             /\ heap[raw(last.h)].e = heap[raw(last.val)].e)
    /\ [][last'.op = "to_public_key" =>
            /\ handles'[last'.val] = handles[last'.val]
            /\ \A r \in Recs : heap[r].state # "unalloc" => heap'[r] = heap[r]]_vars

\* C9 witness: a public key was extracted from a private-bearing handle.
C9_Witness ==
    /\ last.op = "to_public_key" /\ last.res = "ok"
    /\ heap[raw(last.val)].kind = "priv" /\ heap[raw(last.h)].kind = "pub"

\* C10: size() of a key generated with a modulus of N bits is ceil(N / 8):
\* the least byte count whose bits hold N.
C10_SizeIsCeil ==
    (/\ last.op = "size" /\ last.res = "ok"
     /\ heap[raw(last.h)].genbits > 0)
    => LET N == heap[raw(last.h)].genbits
       IN last.val * 8 >= N /\ (last.val - 1) * 8 < N

\* C10 witness: size() was taken of a key whose modulus size is no multiple
\* of 8.
C10_Witness ==
    /\ last.op = "size" /\ last.res = "ok"
    /\ heap[raw(last.h)].genbits % 8 # 0
    /\ heap[raw(last.h)].genbits > 8
SignOfDigest ==
    /\ last.op = "sign" /\ last.res # "crash"
    /\ heap[raw(last.h)].kind = "priv"
    /\ DigestLen(last.alg) # 0 /\ Len(last.inp) = DigestLen(last.alg)
    /\ last.cap >= SizeOf(last.h)

VerifyOfSigned ==
    /\ last.op = "verify" /\ last.res # "crash"
    /\ last.src # NoSrc
    /\ last.src.alg = last.alg /\ last.src.inp = last.inp
    /\ Len(last.inp) = DigestLen(last.alg)
    /\ heap[raw(last.h)].kind \in {"pub", "priv"}
    /\ KeyOf(heap[raw(last.h)]) = last.src.key

\* C12 as stated: with every private-bearing key, sign succeeds on every
\* digest of the length its algorithm expects, and verify accepts the
\* signature.
C12_AsStated ==
    /\ SignOfDigest => last.res = "ok"
    /\ VerifyOfSigned => last.res = "ok"

\* C12: with a private-bearing key whose size() is at least the length of
\* the algorithm's DigestInfo plus 11, sign succeeds on every digest of the
\* length the algorithm expects and writes size() bytes; verify accepts
\* every signature so made against the same digest and algorithm, through
\* the signing handle, a copy of it or the to_public_key() projection.
C12_VerifyOfSign ==
    /\ (/\ SignOfDigest
        /\ SizeOf(last.h) >= Len(DigestInfo(last.alg, last.inp))
                                + RSA_PKCS1_PADDING_SIZE)
       => last.res = "ok" /\ last.val = SizeOf(last.h)
    /\ VerifyOfSigned => last.res = "ok"

\* C12 witness: a signature made through a private-bearing handle was
\* accepted through the to_public_key() projection of the key.
C12_Witness ==
    /\ VerifyOfSigned /\ last.res = "ok"
    /\ last.src.h # last.h
    /\ heap[raw(last.h)].kind = "pub"

\* C13: the convenience form of sign passes a container of size() elements
\* to the buffer form; when that succeeds it returns the container with the
\* signature, resized to the count the buffer form reported, which is
\* size(); when that fails, the same failure is reported and no container
\* is returned.
C13_SignVector ==
    (last.op = "sign<T>" /\ last.res # "crash") =>
        LET call == sign_results(heap[raw(last.h)], last.cap, last.inp,
                                 last.alg)
        IN /\ last.cap = SizeOf(last.h)
           /\ last.res = "ok" =>
                 /\ \E r \in call : /\ r.res = "ok"
                                    /\ last.val = r.val /\ last.out = r.out
                 /\ last.val = SizeOf(last.h)
           /\ last.res # "ok" =>
                 /\ \E r \in call : r.res = last.res
                 /\ last.val = -1 /\ last.out = NoCipher
           /\ (\A r \in call : r.res # "ok") => last.res # "ok"

\* C13 witness: the convenience form returned a signature of size() bytes.
C13_Witness ==
    /\ last.op = "sign<T>" /\ last.res = "ok"
    /\ last.val = SizeOf(last.h) /\ last.val > 0
    /\ last.out # NoCipher

====
